---- MODULE Spec2Model ----
(***************************************************************************)
(* Model of the Cleaner class of src/src/cleaner.ts (lines 1-125): the     *)
(* diff-driven clean(), the fixpoint loop of cleanContent(), the five      *)
(* normalizing transformations and the token similarity.                   *)
(* The command cleaner.clean of src/src/extension.ts (lines 79-126) with    *)
(* the helpers of src/src/git/utils.ts runs clean() once for each file.    *)
(*                                                                         *)
(* A text is a sequence of one-character strings.  A token is a text.      *)
(* A JavaScript number that is the quotient of two counts is kept as the   *)
(* reduced fraction [num, den]; 0/0, which JavaScript evaluates to NaN, is *)
(* the record NaN.                                                         *)
(***************************************************************************)
EXTENDS Integers, Sequences, FiniteSets, TLC

\* ------------------------------------------------------------------------
\* Characters
\* ------------------------------------------------------------------------
NL == "\n"
CR == "\r"
TAB == "\t"
SP == " "
SEMI == ";"
DQ == "\""
SQ == "'"
\* The backtick (a string of this language cannot hold the character itself).
BQ == "bq"

\* \s of the regular expressions (the members that are below U+0080).
SpaceChars == {SP, NL, CR, TAB, "\f"}

\* \w, which decides the word boundaries \b.
WordChars ==
    {"a", "b", "c", "d", "e", "f", "g", "h", "i", "j", "k", "l", "m", "n", "o",
     "p", "q", "r", "s", "t", "u", "v", "w", "x", "y", "z",
     "A", "B", "C", "D", "E", "F", "G", "H", "I", "J", "K", "L", "M", "N", "O",
     "P", "Q", "R", "S", "T", "U", "V", "W", "X", "Y", "Z",
     "0", "1", "2", "3", "4", "5", "6", "7", "8", "9", "_"}

\* The character class [{}[\]().,;:+\-*/%=<>!&|^~?] of tokenize.
DelimChars ==
    {"{", "}", "[", "]", "(", ")", ".", ",", ";", ":", "+", "-", "*", "/",
     "%", "=", "<", ">", "!", "&", "|", "^", "~", "?"}

\* The character class of normalizeQuotes: double quote, single quote, backtick.
QuoteChars == {DQ, SQ, BQ}

\* ------------------------------------------------------------------------
\* Bounds of the model
\* ------------------------------------------------------------------------
\* Longest base text and longest modified text, in characters.
MaxBaseLen == 2
MaxModLen == 4

\* The same two bounds for the termination check, whose cost grows much
\* faster with the number of texts.
MaxBaseLenTermination == 2
MaxModLenTermination == 3

\* The characters the texts are drawn from: a word character, the statement
\* delimiter, the two quote characters the quote style is counted on, a line
\* break and a blank.
Alphabet == {"a", SEMI, SQ, DQ, NL, SP}

RECURSIVE TextsOfLen(_)
TextsOfLen(n) ==
    IF n = 0 THEN {<<>>}
    ELSE {Append(t, c) : t \in TextsOfLen(n - 1), c \in Alphabet}

Texts(maxLen) == UNION {TextsOfLen(n) : n \in 0..maxLen}

\* The bounds and the characters of the texts the quote check draws: the
\* three characters normalizeQuotes replaces, a word character and a line
\* break.
MaxBaseLenQuotes == 2
MaxModLenQuotes == 3

QuoteAlphabet == {"a", SQ, DQ, BQ, NL}

RECURSIVE QuoteTextsOfLen(_)
QuoteTextsOfLen(n) ==
    IF n = 0 THEN {<<>>}
    ELSE {Append(t, c) : t \in QuoteTextsOfLen(n - 1), c \in QuoteAlphabet}

QuoteTexts(maxLen) == UNION {QuoteTextsOfLen(n) : n \in 0..maxLen}

\* ------------------------------------------------------------------------
\* String helpers
\* ------------------------------------------------------------------------
Range(s) == {s[i] : i \in 1..Len(s)}

\* F(v), with v computed once and then handed to F as a value.
With(v, F(_)) == CHOOSE r \in {F(x) : x \in {v}} : TRUE

\* s.slice(from, to) with 0-based offsets, from <= to.
Slice(s, from, to) == SubSeq(s, from + 1, to)

\* The offset where the run of characters of class cls that starts at offset
\* q ends.
RECURSIVE RunEnd(_, _, _)
RunEnd(s, q, cls) ==
    IF q < Len(s) /\ s[q + 1] \in cls THEN RunEnd(s, q + 1, cls) ELSE q

RECURSIVE Flatten(_)
Flatten(ss) == IF ss = <<>> THEN <<>> ELSE Head(ss) \o Flatten(Tail(ss))

\* ------------------------------------------------------------------------
\* JavaScript numbers that are quotients of counts
\* ------------------------------------------------------------------------
NaN == [num |-> 0, den |-> 0]

\* A local that has not been assigned yet.
Undefined == [num |-> 0, den |-> -1]

RECURSIVE Gcd(_, _)
Gcd(a, b) == IF b = 0 THEN a ELSE Gcd(b, a % b)

\* n / d for counts n, d >= 0 (n = 0 whenever d = 0 here, so 0/0 = NaN is the
\* only division by zero).
Quotient(n, d) ==
    IF d = 0 THEN NaN
    ELSE [num |-> n \div Gcd(n, d), den |-> d \div Gcd(n, d)]

IsNaN(x) == x.den = 0

\* x > y and x >= y of JavaScript: false when either side is NaN.
Gt(x, y) == ~IsNaN(x) /\ ~IsNaN(y) /\ x.num * y.den > y.num * x.den
Ge(x, y) == ~IsNaN(x) /\ ~IsNaN(y) /\ x.num * y.den >= y.num * x.den

\* ------------------------------------------------------------------------
\* tokenize (cleaner.ts 120-124)
\* ------------------------------------------------------------------------
IsWordAt(s, k) == k >= 0 /\ k < Len(s) /\ s[k + 1] \in WordChars

\* \b at offset q.
WordBoundary(s, q) == IsWordAt(s, q - 1) # IsWordAt(s, q)

\* The sticky match of /(\s+|\b|[{}[\]().,;:+\-*/%=<>!&|^~?])/ at offset q:
\* the offset where the match ends, -1 when there is none.  The alternatives
\* are tried in order and the first that matches is taken.
SplitMatch(s, q) ==
    IF q < Len(s) /\ s[q + 1] \in SpaceChars THEN RunEnd(s, q, SpaceChars)
    ELSE IF WordBoundary(s, q) THEN q
    ELSE IF q < Len(s) /\ s[q + 1] \in DelimChars THEN q + 1
    ELSE -1

\* String.prototype.split with a regular expression that has one capturing
\* group, from the state (p, q) of its loop: p is the end of the last
\* separator, q the offset tried next.  A match that ends at p is skipped;
\* every other match closes the piece s[p..q) and adds the captured separator.
RECURSIVE SplitLoop(_, _, _, _)
SplitLoop(s, p, q, acc) ==
    IF q >= Len(s) THEN Append(acc, Slice(s, p, Len(s)))
    ELSE With(SplitMatch(s, q), LAMBDA e :
            IF e = -1 \/ e = p THEN SplitLoop(s, p, q + 1, acc)
            ELSE With(acc \o <<Slice(s, p, q), Slice(s, q, e)>>, LAMBDA acc2 :
                    SplitLoop(s, e, e, acc2)))

split(s) ==
    IF Len(s) = 0 THEN (IF SplitMatch(s, 0) # -1 THEN <<>> ELSE <<s>>)
    ELSE SplitLoop(s, 0, 0, <<>>)

\* s.trim()
trim(s) ==
    LET nonSpace == {i \in 1..Len(s) : s[i] \notin SpaceChars} IN
    IF nonSpace = {} THEN <<>>
    ELSE SubSeq(s, CHOOSE i \in nonSpace : \A j \in nonSpace : i <= j,
                   CHOOSE i \in nonSpace : \A j \in nonSpace : i >= j)

KeepToken(token) == Len(trim(token)) > 0

tokenize(content) == SelectSeq(split(content), KeepToken)

\* ------------------------------------------------------------------------
\* computeSimilarity (cleaner.ts 110-118)
\* ------------------------------------------------------------------------
\* The textbook overlap: distinct common tokens over distinct tokens.
similarityOfTokenSets(tokens1, tokens2) ==
    Quotient(Cardinality(Range(tokens1) \cap Range(tokens2)),
             Cardinality(Range(tokens1) \cup Range(tokens2)))

\* intersection.length / union.size of computeSimilarity (cleaner.ts 114-117)
similarityOfTokens(tokens1, tokens2) ==
    LET inTokens2(token) == \E i \in 1..Len(tokens2) : tokens2[i] = token
        intersection == SelectSeq(tokens1, inTokens2)
        union == Range(tokens1 \o tokens2)
    IN  Quotient(Len(intersection), Cardinality(union))

computeSimilarity(content1, content2) ==
    With(tokenize(content1), LAMBDA tokens1 :
        With(tokenize(content2), LAMBDA tokens2 :
            similarityOfTokens(tokens1, tokens2)))

\* ------------------------------------------------------------------------
\* The five transformations (cleaner.ts 66-108).  Each reads this.baseContent,
\* passed here as base.
\* ------------------------------------------------------------------------
Count(s, c) == Cardinality({i \in 1..Len(s) : s[i] = c})

includes(s, sub) ==
    \E i \in 0..(Len(s) - Len(sub)) : Slice(s, i, i + Len(sub)) = sub

detectQuoteStyle(content) ==
    LET singleQuotes == Count(content, SQ)
        doubleQuotes == Count(content, DQ)
    IN  IF doubleQuotes >= singleQuotes THEN DQ ELSE SQ

\* The same replacement with the backtick left alone.
normalizeQuotesKeepingBackticks(base, content) ==
    LET baseQuoteStyle == detectQuoteStyle(base) IN
    [i \in 1..Len(content) |->
        IF content[i] \in {DQ, SQ} THEN baseQuoteStyle ELSE content[i]]

normalizeQuotes(base, content) ==
    LET baseQuoteStyle == detectQuoteStyle(base) IN
    [i \in 1..Len(content) |->
        IF content[i] \in QuoteChars THEN baseQuoteStyle ELSE content[i]]

\* The tail \s*(\n|$) of both semicolon patterns, matched from offset k0:
\* [end, group], the offset where the match ends and the text of the group,
\* or NoMatch.  \s* is greedy and gives characters back until the group
\* matches: the whole run of blanks when it reaches the end of the text,
\* otherwise the run up to its last line feed.
NoMatch == [end |-> -1, group |-> <<>>]

TailMatch(s, k0) ==
    With(RunEnd(s, k0, SpaceChars), LAMBDA j :
        LET feeds == {k \in k0..(j - 1) : s[k + 1] = NL} IN
        IF j = Len(s) THEN [end |-> j, group |-> <<>>]
        ELSE IF feeds = {} THEN NoMatch
        ELSE LET k == CHOOSE x \in feeds : \A y \in feeds : x >= y
             IN  [end |-> k + 1, group |-> <<NL>>])

\* content.replace(/([^;])\s*(\n|$)/g, '$1;$2') from offset i on.
RECURSIVE AddSemicolons(_, _)
AddSemicolons(s, i) ==
    IF i >= Len(s) THEN <<>>
    ELSE With(IF s[i + 1] # SEMI THEN TailMatch(s, i + 1) ELSE NoMatch, LAMBDA m :
            IF m.end = -1 THEN <<s[i + 1]>> \o AddSemicolons(s, i + 1)
            ELSE <<s[i + 1], SEMI>> \o m.group \o AddSemicolons(s, m.end))

\* content.replace(/;\s*(\n|$)/g, '$1') from offset i on.
RECURSIVE StripSemicolons(_, _)
StripSemicolons(s, i) ==
    IF i >= Len(s) THEN <<>>
    ELSE With(IF s[i + 1] = SEMI THEN TailMatch(s, i + 1) ELSE NoMatch, LAMBDA m :
            IF m.end = -1 THEN <<s[i + 1]>> \o StripSemicolons(s, i + 1)
            ELSE m.group \o StripSemicolons(s, m.end))

normalizeSemicolons(base, content) ==
    LET baseSemicolonStyle == includes(base, <<SEMI>>) IN
    IF baseSemicolonStyle THEN AddSemicolons(content, 0)
    ELSE StripSemicolons(content, 0)

\* The offset of the first line feed at or after offset i, Len(s) when there
\* is none.
RECURSIVE lineEnd(_, _)
lineEnd(s, i) == IF i < Len(s) /\ s[i + 1] # NL THEN lineEnd(s, i + 1) ELSE i

\* s.split('\n') from offset i on: the pieces between the line feeds, at
\* least one.
RECURSIVE splitLinesFrom(_, _)
splitLinesFrom(s, i) ==
    With(lineEnd(s, i), LAMBDA e :
        IF e = Len(s) THEN <<Slice(s, i, e)>>
        ELSE <<Slice(s, i, e)>> \o splitLinesFrom(s, e + 1))

splitLines(s) == splitLinesFrom(s, 0)

\* lines.join('\n')
RECURSIVE joinLines(_)
joinLines(lines) ==
    IF Len(lines) = 0 THEN <<>>
    ELSE IF Len(lines) = 1 THEN lines[1]
    ELSE lines[1] \o <<NL>> \o joinLines(Tail(lines))

\* s.replace(/\s+/g, ' ') from offset i on.
RECURSIVE collapseSpaces(_, _)
collapseSpaces(s, i) ==
    IF i >= Len(s) THEN <<>>
    ELSE IF s[i + 1] \in SpaceChars
         THEN With(RunEnd(s, i, SpaceChars), LAMBDA e :
                  <<SP>> \o collapseSpaces(s, e))
         ELSE <<s[i + 1]>> \o collapseSpaces(s, i + 1)

normalizeWhitespace(base, content) ==
    With(splitLines(content), LAMBDA lines :
        joinLines([k \in 1..Len(lines) |-> collapseSpaces(trim(lines[k]), 0)]))

\* s.repeat(n)
RECURSIVE repeat(_, _)
repeat(s, n) == IF n = 0 THEN <<>> ELSE s \o repeat(s, n - 1)

\* base.match(/^[ \t]+/m): the first run of blanks and tabs that starts a line
\* (a line starts at offset 0 and after a line feed or a carriage return);
\* the empty text when there is none.
baseIndentMatch(base) ==
    LET starts == {i \in 0..(Len(base) - 1) :
                      /\ base[i + 1] \in {SP, TAB}
                      /\ (i = 0 \/ base[i] \in {NL, CR})}
    IN  IF starts = {} THEN <<>>
        ELSE LET i == CHOOSE x \in starts : \A y \in starts : x <= y
             IN  Slice(base, i, RunEnd(base, i, {SP, TAB}))

normalizeIndentation(base, content) ==
    LET m == baseIndentMatch(base)
        baseIndent == IF m # <<>> THEN m ELSE <<SP, SP>>
        indentLevel(line) == RunEnd(line, 0, SpaceChars) \div 2
    IN  With(splitLines(content), LAMBDA lines :
            joinLines([k \in 1..Len(lines) |->
                repeat(baseIndent, indentLevel(lines[k])) \o trim(lines[k])]))

\* content.replace(/\r?\n/g, ending) from offset i on.
RECURSIVE replaceLineEndings(_, _, _)
replaceLineEndings(s, i, ending) ==
    IF i >= Len(s) THEN <<>>
    ELSE IF s[i + 1] = CR /\ i + 1 < Len(s) /\ s[i + 2] = NL
         THEN ending \o replaceLineEndings(s, i + 2, ending)
    ELSE IF s[i + 1] = NL
         THEN ending \o replaceLineEndings(s, i + 1, ending)
    ELSE <<s[i + 1]>> \o replaceLineEndings(s, i + 1, ending)

normalizeLineEndings(base, content) ==
    LET baseEnding == IF includes(base, <<CR, NL>>) THEN <<CR, NL>> ELSE <<NL>>
    IN  replaceLineEndings(content, 0, baseEnding)

\* The same methods with the first two in the other order.
cleaningMethodsSemicolonsFirst ==
    <<"normalizeSemicolons", "normalizeQuotes", "normalizeWhitespace",
      "normalizeIndentation", "normalizeLineEndings">>

\* The array cleaningMethods of cleanContent, in its order.
cleaningMethods ==
    <<"normalizeQuotes", "normalizeSemicolons", "normalizeWhitespace",
      "normalizeIndentation", "normalizeLineEndings">>

\* method.call(this, cleanedContent)
callMethod(method, base, content) ==
    CASE method = "normalizeQuotes" -> normalizeQuotes(base, content)
      [] method = "normalizeSemicolons" -> normalizeSemicolons(base, content)
      [] method = "normalizeWhitespace" -> normalizeWhitespace(base, content)
      [] method = "normalizeIndentation" -> normalizeIndentation(base, content)
      [] method = "normalizeLineEndings" -> normalizeLineEndings(base, content)

\* ------------------------------------------------------------------------
\* diffLines of the diff package (cleaner.ts 1, 13).  The package is not part
\* of the repository; it is modelled by what it promises: the lines of both
\* texts, a shortest edit script between them in which the removed lines of
\* a change come before its added lines, and the runs of one kind joined
\* into parts.  Where several scripts are shortest (the common lines can be
\* matched in more than one way) the choice among them is left open.
\* ------------------------------------------------------------------------
\* The lines of a text, each with the line feed that ends it.
RECURSIVE linesFrom(_, _)
linesFrom(s, i) ==
    IF i >= Len(s) THEN <<>>
    ELSE With(lineEnd(s, i), LAMBDA e :
            IF e = Len(s) THEN <<Slice(s, i, e)>>
            ELSE <<Slice(s, i, e + 1)>> \o linesFrom(s, e + 1))

linesOf(s) == linesFrom(s, 0)

Part(value, added, removed) ==
    [value |-> value, added |-> added, removed |-> removed]

\* Every edit script that turns the lines old into the lines new and never
\* removes a line right after adding one (afterAdd: the step before added).
RECURSIVE editScripts(_, _, _)
editScripts(old, new, afterAdd) ==
    IF old = <<>> /\ new = <<>> THEN {<<>>}
    ELSE (IF old # <<>> /\ new # <<>> /\ Head(old) = Head(new)
          THEN {<<Part(Head(new), FALSE, FALSE)>> \o r :
                    r \in editScripts(Tail(old), Tail(new), FALSE)}
          ELSE {})
         \cup
         (IF old # <<>> /\ ~afterAdd
          THEN {<<Part(Head(old), FALSE, TRUE)>> \o r :
                    r \in editScripts(Tail(old), new, FALSE)}
          ELSE {})
         \cup
         (IF new # <<>>
          THEN {<<Part(Head(new), TRUE, FALSE)>> \o r :
                    r \in editScripts(old, Tail(new), TRUE)}
          ELSE {})

editLength(script) ==
    Cardinality({i \in 1..Len(script) : script[i].added \/ script[i].removed})

shortestScripts(old, new) ==
    With(editScripts(old, new, FALSE), LAMBDA all :
        {sc \in all : \A other \in all : editLength(sc) <= editLength(other)})

\* Consecutive steps of one kind become one part.
RECURSIVE joinRuns(_)
joinRuns(script) ==
    IF Len(script) <= 1 THEN script
    ELSE With(joinRuns(Tail(script)), LAMBDA rest :
            LET first == Head(script) IN
            IF first.added = rest[1].added /\ first.removed = rest[1].removed
            THEN <<Part(first.value \o rest[1].value, first.added, first.removed)>>
                 \o Tail(rest)
            ELSE <<first>> \o rest)

\* The results diffLines(oldStr, newStr) may have.  Equal texts give one
\* unchanged part that holds the whole text.
diffLines(oldStr, newStr) ==
    IF oldStr = newStr THEN {<<Part(newStr, FALSE, FALSE)>>}
    ELSE With(linesOf(oldStr), LAMBDA old :
            With(linesOf(newStr), LAMBDA new :
                {joinRuns(sc) : sc \in shortestScripts(old, new)}))

\* ------------------------------------------------------------------------
\* State
\* ------------------------------------------------------------------------
VARIABLES
    baseContent,        \* this.baseContent
    currentContent,     \* this.currentContent
    pc,                 \* where the call of clean() stands
    diff,               \* clean: diff
    partIdx,            \* clean: position of the loop over diff (1-based)
    cleanedContent,     \* clean: cleanedContent, the output assembled so far
    similarity,         \* clean: similarity, the score returned
    partContent,        \* cleanContent: cleanedContent, the text of the part
    improved,           \* cleanContent: improved
    currentSimilarity,  \* cleanContent: currentSimilarity
    methodIdx,          \* cleanContent: position of the loop over cleaningMethods
    workspaceOpen,      \* command: vscode.workspace.workspaceFolders is set
    branches,           \* command: the branches of the repository
    diffOutput,         \* command: what git diff --name-only prints
    commandPc,          \* command: where the run of cleaner.clean stands
    baseBranch,         \* command: baseBranch
    files,              \* command: files
    fileIdx,            \* command: position of the loop over files (1-based)
    processed,          \* command: the calls of processFile that have returned
    written,            \* command: the positions of the files written back
    gitLog,             \* command: the git add and git commit issued
    outcome             \* command: the message the run ends with

cleanVars == <<diff, partIdx, cleanedContent, similarity>>
loopVars == <<partContent, improved, currentSimilarity, methodIdx>>
commandVars ==
    <<workspaceOpen, branches, diffOutput, commandPc, baseBranch, files, fileIdx,
      processed, written, gitLog, outcome>>

vars ==
    <<baseContent, currentContent, pc, cleanVars, loopVars, commandVars>>

\* null, the value of getBaseBranch when there is no base branch, and of a
\* local that is not assigned.
Null == "null"

\* No command runs: the Cleaner is used by itself.
NoCommand ==
    /\ workspaceOpen = FALSE
    /\ branches = {}
    /\ diffOutput = <<>>
    /\ commandPc = "none"
    /\ baseBranch = Null
    /\ files = <<>>
    /\ fileIdx = 0
    /\ processed = <<>>
    /\ written = {}
    /\ gitLog = <<>>
    /\ outcome = ""

\* new Cleaner(baseContent, currentContent), before clean() runs.
Init ==
    /\ baseContent \in Texts(MaxBaseLen)
    /\ currentContent \in Texts(MaxModLen)
    /\ pc = "diff"
    /\ diff = <<>>
    /\ partIdx = 0
    /\ cleanedContent = <<>>
    /\ similarity = Undefined
    /\ partContent = <<>>
    /\ improved = FALSE
    /\ currentSimilarity = Undefined
    /\ methodIdx = 0
    /\ NoCommand

\* newSimilarity >= currentSimilarity
ImprovesOrTies(newSimilarity, curSimilarity) == Ge(newSimilarity, curSimilarity)

\* !(newSimilarity < currentSimilarity)
ImprovesUnlessWorse(newSimilarity, curSimilarity) ==
    ~Gt(curSimilarity, newSimilarity)

\* newSimilarity > currentSimilarity (cleaner.ts 54)
Improves(newSimilarity, curSimilarity) == Gt(newSimilarity, curSimilarity)

\* The base lines a part of the diff replaces: the removed part right before
\* it, nothing when there is none.
alignedBaseBlock(parts, k) ==
    IF k > 1 /\ parts[k - 1].removed THEN parts[k - 1].value ELSE <<>>

\* clean, lines 13-14: the diff is taken and the output starts empty.
TakeDiff ==
    /\ pc = "diff"
    /\ diff' \in diffLines(baseContent, currentContent)
    /\ partIdx' = 1
    /\ cleanedContent' = <<>>
    /\ pc' = "parts"
    /\ UNCHANGED <<baseContent, currentContent, similarity, loopVars>>
    /\ UNCHANGED commandVars

\* The same step with the part scored against the base lines it replaces.
VisitAddedScoredAgainstBlock ==
    /\ pc = "parts"
    /\ partIdx <= Len(diff)
    /\ diff[partIdx].added
    /\ partContent' = diff[partIdx].value
    /\ improved' = TRUE
    /\ currentSimilarity' = computeSimilarity(alignedBaseBlock(diff, partIdx),
                                              diff[partIdx].value)
    /\ pc' = "while"
    /\ UNCHANGED <<baseContent, currentContent, cleanVars, methodIdx>>
    /\ UNCHANGED commandVars

\* clean, lines 17-19, and cleanContent, lines 35-37: an added part is handed
\* to cleanContent, which scores it against the base.
VisitAdded ==
    /\ pc = "parts"
    /\ partIdx <= Len(diff)
    /\ diff[partIdx].added
    /\ partContent' = diff[partIdx].value
    /\ improved' = TRUE
    /\ currentSimilarity' = computeSimilarity(baseContent, diff[partIdx].value)
    /\ pc' = "while"
    /\ UNCHANGED <<baseContent, currentContent, cleanVars, methodIdx>>
    /\ UNCHANGED commandVars

\* The same step with the removed text kept in the output.
VisitRemovedKept ==
    /\ pc = "parts"
    /\ partIdx <= Len(diff)
    /\ ~diff[partIdx].added
    /\ diff[partIdx].removed
    /\ cleanedContent' = cleanedContent \o diff[partIdx].value
    /\ partIdx' = partIdx + 1
    /\ UNCHANGED <<baseContent, currentContent, pc, diff, similarity, loopVars>>
    /\ UNCHANGED commandVars

\* clean, lines 21-23: a removed part is skipped.
VisitRemoved ==
    /\ pc = "parts"
    /\ partIdx <= Len(diff)
    /\ ~diff[partIdx].added
    /\ diff[partIdx].removed
    /\ partIdx' = partIdx + 1
    /\ UNCHANGED <<baseContent, currentContent, pc, diff, cleanedContent,
                   similarity, loopVars>>
    /\ UNCHANGED commandVars

\* clean, lines 24-27: an unchanged part is appended as it is.
VisitUnchanged ==
    /\ pc = "parts"
    /\ partIdx <= Len(diff)
    /\ ~diff[partIdx].added
    /\ ~diff[partIdx].removed
    /\ cleanedContent' = cleanedContent \o diff[partIdx].value
    /\ partIdx' = partIdx + 1
    /\ UNCHANGED <<baseContent, currentContent, pc, diff, similarity, loopVars>>
    /\ UNCHANGED commandVars

\* cleanContent, lines 47-50: the while loop is entered and a pass over the
\* methods starts.
StartPass ==
    /\ pc = "while"
    /\ improved
    /\ improved' = FALSE
    /\ methodIdx' = 1
    /\ pc' = "for"
    /\ UNCHANGED <<baseContent, currentContent, cleanVars, partContent,
                   currentSimilarity>>
    /\ UNCHANGED commandVars

\* cleanContent, lines 50-60: the method at methodIdx is applied and its text
\* scored.  A better text is adopted and the pass is left (lines 55-58);
\* otherwise the pass goes on to the next method and ends after the last.
TryMethod ==
    /\ pc = "for"
    /\ methodIdx <= Len(cleaningMethods)
    /\ \E newContent \in {callMethod(cleaningMethods[methodIdx], baseContent,
                                      partContent)} :
       \E newSimilarity \in {computeSimilarity(baseContent, newContent)} :
           \/ /\ Improves(newSimilarity, currentSimilarity)
              /\ partContent' = newContent
              /\ currentSimilarity' = newSimilarity
              /\ improved' = TRUE
              /\ pc' = "while"
              /\ UNCHANGED methodIdx
           \/ /\ ~Improves(newSimilarity, currentSimilarity)
              /\ methodIdx' = methodIdx + 1
              /\ pc' = IF methodIdx = Len(cleaningMethods) THEN "while" ELSE "for"
              /\ UNCHANGED <<partContent, improved, currentSimilarity>>
    /\ UNCHANGED <<baseContent, currentContent, cleanVars>>
    /\ UNCHANGED commandVars

\* cleanContent, lines 47 and 63, and clean, line 20: a pass without
\* acceptance ends the loop; the text is returned and appended.
ReturnCleaned ==
    /\ pc = "while"
    /\ ~improved
    /\ cleanedContent' = cleanedContent \o partContent
    /\ partIdx' = partIdx + 1
    /\ pc' = "parts"
    /\ UNCHANGED <<baseContent, currentContent, diff, similarity, loopVars>>
    /\ UNCHANGED commandVars

\* clean, lines 30-31: the output is scored against the base and returned.
ReturnResult ==
    /\ pc = "parts"
    /\ partIdx > Len(diff)
    /\ similarity' = computeSimilarity(baseContent, cleanedContent)
    /\ pc' = "done"
    /\ UNCHANGED <<baseContent, currentContent, diff, partIdx, cleanedContent,
                   loopVars>>
    /\ UNCHANGED commandVars

Next ==
    \/ TakeDiff
    \/ VisitAdded
    \/ VisitRemoved
    \/ VisitUnchanged
    \/ StartPass
    \/ TryMethod
    \/ ReturnCleaned
    \/ ReturnResult

Spec == Init /\ [][Next]_vars

\* The same construction over the shorter texts the termination check draws.
InitTermination ==
    /\ baseContent \in Texts(MaxBaseLenTermination)
    /\ currentContent \in Texts(MaxModLenTermination)
    /\ pc = "diff"
    /\ diff = <<>>
    /\ partIdx = 0
    /\ cleanedContent = <<>>
    /\ similarity = Undefined
    /\ partContent = <<>>
    /\ improved = FALSE
    /\ currentSimilarity = Undefined
    /\ methodIdx = 0
    /\ NoCommand

\* The same construction over texts with all three quote characters.
InitQuotes ==
    /\ baseContent \in QuoteTexts(MaxBaseLenQuotes)
    /\ currentContent \in QuoteTexts(MaxModLenQuotes)
    /\ pc = "diff"
    /\ diff = <<>>
    /\ partIdx = 0
    /\ cleanedContent = <<>>
    /\ similarity = Undefined
    /\ partContent = <<>>
    /\ improved = FALSE
    /\ currentSimilarity = Undefined
    /\ methodIdx = 0
    /\ NoCommand

QuoteSpec == InitQuotes /\ [][Next]_vars

\* clean() is awaited by its caller and nothing else runs: every step that
\* can be taken is taken.
FairSpec == InitTermination /\ [][Next]_vars /\ WF_vars(Next)

\* ------------------------------------------------------------------------
\* The command cleaner.clean (extension.ts 79-126) and the helpers it calls
\* (git/utils.ts).  Every call of git and of the editor may throw.
\* ------------------------------------------------------------------------
\* Longest output of git diff --name-only, in characters, and longest content
\* of a file on either branch.
MaxDiffOutputLen == 3
MaxFileLen == 1

\* The output of git diff --name-only: file names of the letters f and g,
\* and line feeds.
RECURSIVE DiffOutputsOfLen(_)
DiffOutputsOfLen(n) ==
    IF n = 0 THEN {<<>>}
    ELSE {Append(t, c) : t \in DiffOutputsOfLen(n - 1), c \in {"f", "g", NL}}

DiffOutputs == UNION {DiffOutputsOfLen(n) : n \in 0..MaxDiffOutputLen}

BranchNames == {"main", "master", "dev"}

\* git/utils.ts 9-18
getBaseBranch(all) ==
    IF "main" \in all THEN "main"
    ELSE IF "master" \in all THEN "master"
    ELSE Null

\* git/utils.ts 25-31: diffFiles.trim().split('\n').filter((file) => file)
getChangedFiles(diffFiles) ==
    SelectSeq(splitLines(trim(diffFiles)), LAMBDA file : file # <<>>)

\* git/utils.ts 67-73
getGitMessage(summary) ==
    IF summary.changes = 0 /\ summary.insertions = 0 /\ summary.deletions = 0
    THEN "No changes were made during code cleanup."
    ELSE "Code cleaned."

Summaries == [changes : 0..1, insertions : 0..1, deletions : 0..1]

environment == <<workspaceOpen, branches, diffOutput>>
cleanerVars == <<baseContent, currentContent, pc, cleanVars, loopVars>>

\* The command is invoked; no Cleaner exists yet.
InitCommand ==
    /\ workspaceOpen \in BOOLEAN
    /\ branches \in SUBSET BranchNames
    /\ diffOutput \in DiffOutputs
    /\ commandPc = "start"
    /\ baseBranch = Null
    /\ files = <<>>
    /\ fileIdx = 0
    /\ processed = <<>>
    /\ written = {}
    /\ gitLog = <<>>
    /\ outcome = ""
    /\ baseContent = <<>>
    /\ currentContent = <<>>
    /\ pc = "idle"
    /\ diff = <<>>
    /\ partIdx = 0
    /\ cleanedContent = <<>>
    /\ similarity = Undefined
    /\ partContent = <<>>
    /\ improved = FALSE
    /\ currentSimilarity = Undefined
    /\ methodIdx = 0

\* extension.ts 120-122: an error thrown in the handler ends the run with an
\* error message.
Caught ==
    /\ commandPc' = "done"
    /\ outcome' = "Error"

\* extension.ts 82-88
CheckWorkspace ==
    /\ commandPc = "start"
    /\ IF workspaceOpen
       THEN commandPc' = "status" /\ UNCHANGED outcome
       ELSE commandPc' = "done" /\ outcome' = "No workspace is open."
    /\ UNCHANGED <<environment, baseBranch, files, fileIdx, processed, written,
                   gitLog, cleanerVars>>

\* extension.ts 91, git/utils.ts 4-7
GetCurrentBranch ==
    /\ commandPc = "status"
    /\ \/ commandPc' = "branch" /\ UNCHANGED outcome
       \/ Caught
    /\ UNCHANGED <<environment, baseBranch, files, fileIdx, processed, written,
                   gitLog, cleanerVars>>

\* extension.ts 94-99
GetBaseBranch ==
    /\ commandPc = "branch"
    /\ \/ /\ baseBranch' = getBaseBranch(branches)
          /\ IF baseBranch' = Null
             THEN /\ commandPc' = "done"
                  /\ outcome' = "Neither main nor master branch exists."
             ELSE commandPc' = "diff" /\ UNCHANGED outcome
       \/ Caught /\ UNCHANGED baseBranch
    /\ UNCHANGED <<environment, files, fileIdx, processed, written, gitLog,
                   cleanerVars>>

\* extension.ts 102-107
GetChangedFiles ==
    /\ commandPc = "diff"
    /\ \/ /\ files' = getChangedFiles(diffOutput)
          /\ IF Len(files') = 0
             THEN /\ commandPc' = "done"
                  /\ outcome' = "No files have been changed compared to base branch."
                  /\ UNCHANGED fileIdx
             ELSE commandPc' = "show" /\ fileIdx' = 1 /\ UNCHANGED outcome
       \/ Caught /\ UNCHANGED <<files, fileIdx>>
    /\ UNCHANGED <<environment, baseBranch, processed, written, gitLog,
                   cleanerVars>>

\* extension.ts 110-112 and git/utils.ts 34-65: processFile returns, with ok
\* telling whether it came to its end without an error, and the loop over
\* files goes on; after the last file the command goes on to git add.
Returned(ok) ==
    /\ processed' = Append(processed, [file |-> files[fileIdx], ok |-> ok])
    /\ fileIdx' = fileIdx + 1
    /\ commandPc' = IF fileIdx = Len(files) THEN "add" ELSE "show"

\* The same return with the error thrown on to the handler of the command.
ReturnedOrThrown(ok) ==
    IF ok THEN Returned(ok) /\ UNCHANGED outcome
    ELSE Caught /\ UNCHANGED <<processed, fileIdx>>

\* git/utils.ts 62-64: an error inside processFile is caught there and
\* shown.
ReturnedOrCaught(ok) == Returned(ok) /\ UNCHANGED outcome

\* git/utils.ts 36-38: git show of the file on the base branch.
ShowBase ==
    /\ commandPc = "show"
    /\ \/ /\ baseContent' \in Texts(MaxFileLen)
          /\ commandPc' = "read"
          /\ UNCHANGED <<processed, fileIdx, outcome>>
       \/ ReturnedOrCaught(FALSE) /\ UNCHANGED baseContent
    /\ UNCHANGED <<environment, baseBranch, files, written, gitLog,
                   currentContent, pc, cleanVars, loopVars>>

\* git/utils.ts 41-53: the current content is read, from the document or,
\* when that fails, from the file, and the Cleaner is constructed.
ReadCurrent ==
    /\ commandPc = "read"
    /\ \/ /\ currentContent' \in Texts(MaxFileLen)
          /\ pc' = "diff"
          /\ diff' = <<>>
          /\ partIdx' = 0
          /\ cleanedContent' = <<>>
          /\ similarity' = Undefined
          /\ partContent' = <<>>
          /\ improved' = FALSE
          /\ currentSimilarity' = Undefined
          /\ methodIdx' = 0
          /\ commandPc' = "clean"
          /\ UNCHANGED <<processed, fileIdx, outcome>>
       \/ /\ ReturnedOrCaught(FALSE)
          /\ UNCHANGED <<currentContent, pc, cleanVars, loopVars>>
    /\ UNCHANGED <<environment, baseBranch, files, written, gitLog, baseContent>>

\* git/utils.ts 54-61: clean() has returned; the cleaned content is written
\* when it differs and the similarity is shown.
WriteCleaned ==
    /\ commandPc = "clean"
    /\ pc = "done"
    /\ IF cleanedContent # currentContent
       THEN \/ written' = written \cup {fileIdx} /\ ReturnedOrCaught(TRUE)
            \/ UNCHANGED written /\ ReturnedOrCaught(FALSE)
       ELSE UNCHANGED written /\ ReturnedOrCaught(TRUE)
    /\ UNCHANGED <<environment, baseBranch, files, gitLog, cleanerVars>>

\* extension.ts 115
GitAdd ==
    /\ commandPc = "add"
    /\ gitLog' = Append(gitLog, [op |-> "add", args |-> files])
    /\ \/ commandPc' = "commit" /\ UNCHANGED outcome
       \/ Caught
    /\ UNCHANGED <<environment, baseBranch, files, fileIdx, processed, written,
                   cleanerVars>>

\* extension.ts 116-119
GitCommit ==
    /\ commandPc = "commit"
    /\ gitLog' = Append(gitLog, [op |-> "commit", args |-> <<"Code cleanup">>])
    /\ \/ \E summary \in Summaries :
             /\ commandPc' = "done"
             /\ outcome' = getGitMessage(summary)
       \/ Caught
    /\ UNCHANGED <<environment, baseBranch, files, fileIdx, processed, written,
                   cleanerVars>>

\* The steps of the command, with those of the clean() it awaits.
NextCommand ==
    \/ CheckWorkspace
    \/ GetCurrentBranch
    \/ GetBaseBranch
    \/ GetChangedFiles
    \/ ShowBase
    \/ ReadCurrent
    \/ TakeDiff
    \/ VisitAdded
    \/ VisitRemoved
    \/ VisitUnchanged
    \/ StartPass
    \/ TryMethod
    \/ ReturnCleaned
    \/ ReturnResult
    \/ WriteCleaned
    \/ GitAdd
    \/ GitCommit

CommandSpec == InitCommand /\ [][NextCommand]_vars

\* ------------------------------------------------------------------------
\* cleanContent as a function of the base and the text handed to it
\* (cleaner.ts 34-64): the text the loop returns.
\* ------------------------------------------------------------------------
\* The rest of a pass from method k on, with the text and score held.
RECURSIVE cleanPass(_, _, _, _)
cleanPass(base, content, curSimilarity, k) ==
    IF k > Len(cleaningMethods) THEN content
    ELSE With(callMethod(cleaningMethods[k], base, content), LAMBDA newText :
            With(computeSimilarity(base, newText), LAMBDA newScore :
                IF Improves(newScore, curSimilarity)
                THEN cleanPass(base, newText, newScore, 1)
                ELSE cleanPass(base, content, curSimilarity, k + 1)))

cleanContent(base, content) ==
    cleanPass(base, content, computeSimilarity(base, content), 1)

\* ------------------------------------------------------------------------
\* Properties
\* ------------------------------------------------------------------------
Zero == Quotient(0, 1)
One == Quotient(1, 1)

InLoop == pc \in {"while", "for"}

\* The score formula of the specification, read off the token sequences:
\* the positions of a whose token occurs in b, over the distinct tokens of
\* both.
positionsFound(ta, tb) ==
    {i \in 1..Len(ta) : \E j \in 1..Len(tb) : tb[j] = ta[i]}

formulaScore(a, b) ==
    LET ta == tokenize(a)
        tb == tokenize(b)
    IN  Quotient(Cardinality(positionsFound(ta, tb)),
                 Cardinality(Range(ta) \cup Range(tb)))

\* C1: every similarity score lies in [0, 1]; in particular the one clean()
\* returns.  Stated here for the scores that are numbers: no score the loop
\* holds and no score returned is below 0 or above 1.
C1_ScoreInUnitInterval ==
    /\ InLoop => ~Gt(currentSimilarity, One) /\ ~Gt(Zero, currentSimilarity)
    /\ pc = "done" => ~Gt(similarity, One) /\ ~Gt(Zero, similarity)

\* C3: the score of the cleaned text against the base is at least the score
\* of the raw modified text against the base.  Stated for the pairs whose raw
\* score is a number and whose lines the diff can match in one way only.
C3_MonotonicImprovement ==
    (/\ pc = "done"
     /\ ~IsNaN(computeSimilarity(baseContent, currentContent))
     /\ Cardinality(diffLines(baseContent, currentContent)) = 1)
    => Ge(similarity, computeSimilarity(baseContent, currentContent))

\* C4: cleaning a text that has a token against itself returns the text and
\* the score 1.
C4_Identity ==
    (pc = "done" /\ baseContent = currentContent
        /\ tokenize(baseContent) # <<>>)
    => (cleanedContent = baseContent /\ similarity = One)

\* C5: the similarity of two texts without tokens is 0, and no score is NaN.
C5_TotalZeroOnEmpty ==
    /\ InLoop => ~IsNaN(currentSimilarity)
    /\ pc = "done" => ~IsNaN(similarity)
    /\ (pc = "done" /\ tokenize(baseContent) = <<>>
            /\ tokenize(cleanedContent) = <<>>) => similarity = Zero

\* C6: the score of (a, b) is the number of positions of the token sequence
\* of a whose token occurs in b, over the number of distinct tokens of a and
\* b: every score the program computes, the loop's of the base against the
\* text of the part and the returned one of the base against the output, is
\* that quotient.
C6_ScoreFormula ==
    /\ InLoop => currentSimilarity = formulaScore(baseContent, partContent)
    /\ pc = "done" => similarity = formulaScore(baseContent, cleanedContent)

\* C6's case: a returned score that is a number, with a token counted twice
\* in the numerator, and that differs from the score in the other direction.
C6_Witness ==
    /\ pc = "done"
    /\ Gt(similarity, Zero)
    /\ Len(tokenize(baseContent)) > Cardinality(Range(tokenize(baseContent)))
    /\ formulaScore(cleanedContent, baseContent) # similarity

\* C2: the fixpoint loop of cleanContent terminates: once a part has been
\* handed to the loop, the loop is left and clean() goes on with its parts.
C2_LoopTerminates == InLoop ~> (pc = "parts")

\* C2's case: a loop that accepted a transformation and then ended.
C2_Witness ==
    /\ pc = "parts"
    /\ partIdx > 1
    /\ diff[partIdx - 1].added
    /\ partContent # diff[partIdx - 1].value

\* C7: in the loop the text of the part is replaced only by a text whose
\* score against the base is strictly greater, so the score the loop holds
\* strictly increases with every replacement.
C7_StrictImprovementOnly ==
    [][(InLoop /\ (partContent' # partContent
                    \/ currentSimilarity' # currentSimilarity))
        => (/\ pc = "for"
            /\ Gt(computeSimilarity(baseContent, partContent'),
                  computeSimilarity(baseContent, partContent))
            /\ Gt(currentSimilarity', currentSimilarity))]_vars

\* C7's case: a candidate has just been adopted.
C7_Witness ==
    /\ pc = "while"
    /\ improved
    /\ partContent # diff[partIdx].value
    /\ Gt(currentSimilarity, computeSimilarity(baseContent, diff[partIdx].value))

\* C8 as stated: the score the loop holds is the similarity of the text to
\* the base block aligned with the part.
C8_ReferenceIsAlignedBlock ==
    InLoop => currentSimilarity
                = computeSimilarity(alignedBaseBlock(diff, partIdx), partContent)

\* C8 as amended: the score the loop holds, at the start and after every
\* adoption, is the similarity of the text to the whole base text.
C8_ReferenceIsWholeBase ==
    InLoop => currentSimilarity = computeSimilarity(baseContent, partContent)

\* C8's case: a text adopted by the loop whose score against the whole base
\* is not its score against the aligned base block.
C8_Witness ==
    /\ InLoop
    /\ partContent # diff[partIdx].value
    /\ currentSimilarity
         # computeSimilarity(alignedBaseBlock(diff, partIdx), partContent)

\* What a part of the diff adds to the output.
contribution(base, part) ==
    IF part.added THEN cleanContent(base, part.value)
    ELSE IF part.removed THEN <<>>
    ELSE part.value

\* C9: the output is the concatenation, in the order of the diff, of the
\* unchanged parts as they are and of the cleaned added parts; removed parts
\* add nothing, and only added parts are handed to the loop.
C9_OutputAssembly ==
    /\ pc # "diff" =>
          cleanedContent
            = Flatten([k \in 1..(partIdx - 1) |-> contribution(baseContent, diff[k])])
    /\ InLoop => diff[partIdx].added
    /\ pc = "done" => partIdx = Len(diff) + 1

\* C9's case: a finished run over an unchanged part with text, a removed
\* part and an added part that cleaning changed.
C9_Witness ==
    /\ pc = "done"
    /\ \E u, r, a \in 1..Len(diff) :
          /\ ~diff[u].added /\ ~diff[u].removed /\ diff[u].value # <<>>
          /\ diff[r].removed
          /\ diff[a].added
          /\ cleanContent(baseContent, diff[a].value) # diff[a].value

\* The transformations in the order of the specification.
transformation(k, base, text) ==
    CASE k = 1 -> normalizeQuotes(base, text)
      [] k = 2 -> normalizeSemicolons(base, text)
      [] k = 3 -> normalizeWhitespace(base, text)
      [] k = 4 -> normalizeIndentation(base, text)
      [] k = 5 -> normalizeLineEndings(base, text)

\* Transformation k does not improve on the text the loop holds.
noGain(k) ==
    ~Gt(computeSimilarity(baseContent, transformation(k, baseContent, partContent)),
        currentSimilarity)

\* C10: the loop tries quote, semicolon, whitespace, indentation, line-ending
\* in this order (at position k the k-1 before it have failed on the text
\* held); an acceptance adopts the output of the transformation at the
\* position and is followed by the first transformation on the adopted text;
\* and the loop ends only after all five have failed on the text held.
C10_PassOrder ==
    [][/\ pc = "for" =>
            /\ methodIdx \in 1..5
            /\ \A k \in 1..(methodIdx - 1) : noGain(k)
       /\ (pc = "for" /\ partContent' # partContent) =>
            /\ partContent' = transformation(methodIdx, baseContent, partContent)
            /\ pc' = "while"
            /\ improved'
       /\ (pc = "while" /\ improved) =>
            /\ pc' = "for"
            /\ methodIdx' = 1
            /\ partContent' = partContent
       /\ (pc = "while" /\ ~improved) =>
            /\ pc' = "parts"
            /\ \A k \in 1..5 : noGain(k)]_vars

\* C10's case: after an acceptance the pass has started again at the first
\* transformation, on the adopted text.
C10_Witness ==
    /\ pc = "for"
    /\ methodIdx = 1
    /\ partContent # diff[partIdx].value

\* A text of one line without blanks: it has no line feed and no other
\* white space.
oneLine(text) == \A i \in 1..Len(text) : text[i] \notin SpaceChars

endsWithSemicolon(line) == Len(line) > 0 /\ line[Len(line)] = SEMI

\* The semicolon rule of the specification for a reference line and a text
\* line.
lineSemicolons(reference, line) ==
    IF endsWithSemicolon(reference) /\ ~endsWithSemicolon(line)
    THEN line \o <<SEMI>>
    ELSE IF ~endsWithSemicolon(reference) /\ endsWithSemicolon(line)
    THEN SubSeq(line, 1, Len(line) - 1)
    ELSE line

\* C11: semicolon normalization of a text line against a reference line
\* appends ; when only the reference ends with it, strips the trailing ; when
\* only the text ends with it, and returns the text unchanged otherwise.
\* Stated for the bases and texts of one line without blanks that the loop
\* hands to the semicolon transformation.
C11_SemicolonNormalization ==
    (/\ pc = "for"
     /\ methodIdx = 2
     /\ oneLine(baseContent)
     /\ oneLine(partContent))
    => normalizeSemicolons(baseContent, partContent)
         = lineSemicolons(baseContent, partContent)

\* The dominant quote character of the specification.
dominantQuote(reference) ==
    IF Count(reference, DQ) >= Count(reference, SQ) THEN DQ ELSE SQ

\* The text with the characters of the set quotes replaced by the dominant
\* quote character of the reference.
withQuotes(quotes, reference, text) ==
    [i \in 1..Len(text) |->
        IF text[i] \in quotes THEN dominantQuote(reference) ELSE text[i]]

\* C12 as stated: quote normalization replaces every " and ' of the text by
\* the dominant quote character of the reference (" on a tie) and leaves
\* every other character unchanged.
C12_QuotesDoubleAndSingleOnly ==
    (pc = "for" /\ methodIdx = 1)
    => normalizeQuotes(baseContent, partContent)
         = withQuotes({DQ, SQ}, baseContent, partContent)

\* C12 as amended: quote normalization replaces every ", ' and backtick of
\* the text by the dominant quote character of the reference, which is "
\* when the reference has at least as many " as ' and ' otherwise, and
\* leaves every other character unchanged; and a text the loop adopts from
\* the quote transformation is that text.
C12_QuotesWithBacktick ==
    /\ (pc = "for" /\ methodIdx = 1)
       => normalizeQuotes(baseContent, partContent)
            = withQuotes({DQ, SQ, BQ}, baseContent, partContent)
    /\ (pc = "while" /\ improved /\ partContent # diff[partIdx].value)
       => partContent = withQuotes({DQ, SQ, BQ}, baseContent, diff[partIdx].value)

\* C12's case: the loop has adopted the output of quote normalization for a
\* text with a backtick and a character that is no quote, against a base
\* with more ' than ".
C12_Witness ==
    /\ pc = "while"
    /\ improved
    /\ partContent # diff[partIdx].value
    /\ BQ \in Range(diff[partIdx].value)
    /\ "a" \in Range(diff[partIdx].value)
    /\ dominantQuote(baseContent) = SQ
    /\ BQ \notin Range(partContent)

\* The git commands issued so far and the files processFile has returned
\* for, in the order of the events.
issued == [i \in 1..Len(gitLog) |-> gitLog[i].op]
processedFiles == [i \in 1..Len(processed) |-> processed[i].file]

\* C13: in a run of the command git add and git commit are each issued at
\* most once, add before commit, and only after processFile has returned for
\* every changed file in list order; neither is issued without a workspace,
\* without a main or master branch, or with an empty list of changed files;
\* and an error inside processFile stops neither the processing of the files
\* after it nor the commit: once there are files to process, the run ends
\* only after all of them have been processed and git add has been issued,
\* and it ends without an error of the command only after git commit.
C13_AddCommitOrchestration ==
    /\ issued \in {<<>>, <<"add">>, <<"add", "commit">>}
    /\ processedFiles = SubSeq(files, 1, Len(processed))
    /\ gitLog # <<>> =>
          /\ workspaceOpen
          /\ "main" \in branches \/ "master" \in branches
          /\ getChangedFiles(diffOutput) # <<>>
          /\ files = getChangedFiles(diffOutput)
          /\ processedFiles = files
          /\ gitLog[1].args = files
    /\ (commandPc = "done" /\ files # <<>>) =>
          /\ processedFiles = files
          /\ issued # <<>>
    /\ (commandPc = "done" /\ files # <<>> /\ outcome # "Error") =>
          issued = <<"add", "commit">>

\* C13's case: a run over two different files that has ended with the commit although
\* processFile failed for the first file, and that wrote the second.
C13_Witness ==
    /\ commandPc = "done"
    /\ issued = <<"add", "commit">>
    /\ Len(files) = 2
    /\ files[1] # files[2]
    /\ ~processed[1].ok
    /\ processed[2].ok
    /\ 2 \in written

====
